---- MODULE Spec2Model ----
(***************************************************************************)
(* District settings editor (DistrictSettingsPage) of the Alexandria       *)
(* library front end, its API client calls getDistrictSettings and         *)
(* updateDistrictSettings, and the backing store behind them.              *)
(*                                                                         *)
(* A string is a sequence of one-character strings, so that trim() is      *)
(* computed and not assumed.  A JavaScript array is a sequence; the        *)
(* JavaScript index i is position i + 1 of the sequence.                   *)
(***************************************************************************)
EXTENDS Integers, Sequences, FiniteSets, TLC

\* ------------------------------------------------------------------ bounds

\* Largest number of entries the three lists hold together, in the editor
\* taken alone (SpecLists).
MaxItems == 3

\* The same, in the editor with its backing store (Spec).
MaxStoreItems == 1

\* ------------------------------------------------------------------ strings

Whitespace == {" ", "\t"}

EmptyStr == << >>

RECURSIVE TrimStart(_)
TrimStart(s) ==
  IF s # << >> /\ Head(s) \in Whitespace THEN TrimStart(Tail(s)) ELSE s

RECURSIVE TrimEnd(_)
TrimEnd(s) ==
  IF s # << >> /\ s[Len(s)] \in Whitespace
    THEN TrimEnd(SubSeq(s, 1, Len(s) - 1))
    ELSE s

\* A mutant of Trim: the raw input is kept.
TrimNot(s) == s

\* String.prototype.trim
Trim(s) == TrimEnd(TrimStart(s))

\* What the user can type into a "new item" input.
Inputs ==
  { << >>, <<" ">>, <<"A">>, <<" ", "A", " ">>, <<"a">>, <<"B">> }

\* The inputs typed into the editor with its backing store (Spec).
StoreInputs == { << >>, <<" ", "A", " ">>, <<"a">> }

\* Array.prototype.includes on an array of strings: exact match.
Includes(list, v) == \E k \in 1..Len(list) : list[k] = v

\* ------------------------------------------------------------------ settings

Lists == {"soppa_statuses", "app_statuses", "app_tags"}


\* The fields that hold a secret.
SecretFields ==
  {"google_client_secret", "apple_private_key", "microsoft_client_secret"}

\* The placeholder shown for a secret that is set: eight asterisks.
Sentinel == <<"*", "*", "*", "*", "*", "*", "*", "*">>

\* The JavaScript null, which is no string.
Null == <<"null">>

\* useState<DistrictSettings>({...}) : the lists empty, the scalars ''.
InitialSettings ==
  [ soppa_statuses          |-> << >>,
    app_statuses            |-> << >>,
    app_tags                |-> << >>,
    allowed_domain          |-> "",
    google_client_secret    |-> EmptyStr,
    apple_private_key       |-> EmptyStr,
    microsoft_client_secret |-> EmptyStr ]

\* The district as provisioned: empty lists, sign-in restricted to a domain.
ProvisionedSettings == [InitialSettings EXCEPT !.allowed_domain = "sd25.org"]

TotalLen(s) ==
  Len(s.soppa_statuses) + Len(s.app_statuses) + Len(s.app_tags)

\* A mutant of addItem: no duplicate check.
addItemNoDupCheck(rendered, prev, list, value) ==
  IF Trim(value) = EmptyStr
    THEN prev
    ELSE [prev EXCEPT ![list] = Append(prev[list], Trim(value))]

\* A mutant of addItem: the empty check is on the raw value.
addItemRawEmptyCheck(rendered, prev, list, value) ==
  IF value = EmptyStr
    THEN prev
    ELSE IF Includes(rendered[list], Trim(value))
      THEN prev
      ELSE [prev EXCEPT ![list] = Append(prev[list], Trim(value))]

\* addItem(list, value): the guards read the rendered settings, the update
\* is applied to the state React holds (prev).
addItem(rendered, prev, list, value) ==
  IF Trim(value) = EmptyStr
    THEN prev
    ELSE IF Includes(rendered[list], Trim(value))
      THEN prev
      ELSE [prev EXCEPT ![list] = Append(prev[list], Trim(value))]

\* The return taken by addItem.
addItemPath(rendered, list, value) ==
  IF Trim(value) = EmptyStr
    THEN "empty"
    ELSE IF Includes(rendered[list], Trim(value)) THEN "duplicate" ELSE "appended"

\* prev[list].filter((_, i) => i !== index)
RECURSIVE FilterNotIndex(_, _, _)
FilterNotIndex(list, index, i) ==
  IF list = << >>
    THEN << >>
    ELSE IF i # index
      THEN <<Head(list)>> \o FilterNotIndex(Tail(list), index, i + 1)
      ELSE FilterNotIndex(Tail(list), index, i + 1)

\* A mutant of removeItem: the element at index and all after it are dropped.
removeItemTruncate(prev, list, index) ==
  [prev EXCEPT ![list] =
     IF index >= 0 /\ index < Len(@) THEN SubSeq(@, 1, index) ELSE @]

\* removeItem(list, index)
removeItem(prev, list, index) ==
  [prev EXCEPT ![list] = FilterNotIndex(@, index, 0)]

\* Whether removeItem is given the index of an element.
removeItemPath(prev, list, index) ==
  IF index >= 0 /\ index < Len(prev[list]) THEN "inRange" ELSE "outOfRange"

Directions == {"up", "down"}

\* The JavaScript undefined, which is no string.
Undefined == <<"undefined">>

\* list[i]: undefined outside the array.
At(list, i) == IF i >= 0 /\ i < Len(list) THEN list[i + 1] ELSE Undefined

\* [newList[index], newList[newIndex]] = [newList[newIndex], newList[index]]
\* An assignment past the end lengthens the array; a slot left empty reads
\* as undefined.
Swap(list, index, newIndex) ==
  LET a == IF index > newIndex THEN index ELSE newIndex
      n == IF a + 1 > Len(list) THEN a + 1 ELSE Len(list)
  IN  [k \in 1..n |->
         IF k = index + 1 THEN At(list, newIndex)
         ELSE IF k = newIndex + 1 THEN At(list, index)
         ELSE At(list, k - 1)]

\* A mutant of moveItem: the neighbour is overwritten instead of swapped.
moveItemOverwrite(rendered, prev, list, index, direction) ==
  LET newIndex == IF direction = "up" THEN index - 1 ELSE index + 1
  IN  IF newIndex < 0 \/ newIndex >= Len(rendered[list])
        THEN prev
        ELSE [prev EXCEPT ![list] = [@ EXCEPT ![newIndex + 1] = @[index + 1]]]

\* A mutant of moveItem: "up" moves towards the end as well.
moveItemAlwaysDown(rendered, prev, list, index, direction) ==
  LET newIndex == index + 1
  IN  IF newIndex < 0 \/ newIndex >= Len(rendered[list])
        THEN prev
        ELSE [prev EXCEPT ![list] = Swap(@, index, newIndex)]

\* moveItem(list, index, direction)
moveItem(rendered, prev, list, index, direction) ==
  LET newIndex == IF direction = "up" THEN index - 1 ELSE index + 1
  IN  IF newIndex < 0 \/ newIndex >= Len(rendered[list])
        THEN prev
        ELSE [prev EXCEPT ![list] = Swap(@, index, newIndex)]

\* The return taken by moveItem.
moveItemPath(rendered, list, index, direction) ==
  LET newIndex == IF direction = "up" THEN index - 1 ELSE index + 1
  IN  IF newIndex < 0 \/ newIndex >= Len(rendered[list])
        THEN "outOfBounds"
        ELSE "swapped"

\* ------------------------------------------------------------------ state

None == "none"

\* No request, or no response, in flight.
Nothing == << >>

VARIABLES
  route,        \* the page shown: "/settings" while the editor is mounted
  pc,           \* position of loadData: "me", "settings" or "done"
  isAuthorized, \* useState(false)
  loading,      \* useState(true)
  saving,       \* useState(false)
  justSaved,    \* useState(false)
  message,      \* "none", "success" or "error"
  settings,     \* the settings state React holds
  rendered,     \* the settings of the last render, read by the handlers
  timer,        \* a setTimeout(() => setJustSaved(false), 2000) is pending
  putReq,       \* the PUT request in flight: << >> or <<body>>
  putResp,      \* the PUT's outcome on its way back: << >> or <<outcome>>
  stored,       \* the settings the backing store holds
  last,         \* the last handler that ran and the return it took
  peer,         \* the settings editor of a second admin, in another browser
  apps,         \* DistrictAppsPage: useState<AppData[]>([])
  filterStatus, \* DistrictAppsPage: useState<string>('all')
  searchQuery,  \* DistrictAppsPage: useState('')
  isAuthenticated,  \* DistrictLayout: useState(false)
  userRole,         \* DistrictLayout: useState<string | null>(null)
  layoutPc,         \* DistrictLayout: "me" while its auth check is pending
  checked,          \* the answer the auth check of the layout got: << >> or <<answer>>
  csrfToken,        \* API client: let csrfToken: string | null = null
  lastMe,           \* the most recent /api/auth/me response: << >> or <<data>>
  loggedOut,        \* a logout was sent after that response
  sent,             \* the last contact request sent: << >> or <<request>>
  itemTags,         \* EditModal: item.tags
  selectedTags,     \* EditModal: useState<string[]>(item.tags || [])
  editOpen,         \* the EditModal is on screen
  toggled,          \* the tag of the last click in the TagSelector: << >> or <<tag>>
  showRequestModal, \* DistrictAppsPage: useState(false)
  modal,            \* RequestAppModal: loading, success and error
  opening,          \* how many times the request modal was opened
  submits,          \* the openings whose POST /api/requests is in flight
  timers,           \* the openings whose setTimeout(onClose, 2000) is pending
  closes,           \* how often the onClose of each opening was invoked
  answered,         \* what the last finished submission got: << >> or <<response>>
  requests,         \* DistrictRequestsPage: useState<AppRequest[]>([])
  clicked           \* the last status button clicked: << >> or <<click>>

vars ==
  << route, pc, isAuthorized, loading, saving, justSaved, message, settings,
     rendered, timer, putReq, putResp, stored, last,
     peer, apps, filterStatus, searchQuery,
     isAuthenticated, userRole, layoutPc, checked, csrfToken, lastMe, loggedOut,
     sent, itemTags, selectedTags, editOpen, toggled, showRequestModal, modal, opening,
     submits, timers, closes, answered, requests, clicked >>

\* The state of the app catalog (DistrictAppsPage).
catalog == << apps, filterStatus, searchQuery >>

\* What a step of this settings editor leaves alone: the editor of the
\* second admin and the catalog.
elsewhere == << peer, apps, filterStatus, searchQuery >>

\* The layout and the token cache of the API client.
session ==
  << isAuthenticated, userRole, layoutPc, checked, csrfToken, lastMe, loggedOut,
     sent >>

\* The tag selection of the EditModal.
tagEditor == << itemTags, selectedTags, editOpen, toggled >>

\* The request-app modal of the catalog.
requestModal ==
  << showRequestModal, modal, opening, submits, timers, closes, answered >>

\* The requests page.
requestsPage == << requests, clicked >>

\* What the settings editors and the catalog filter never touch.
pages == << session, tagEditor, requestModal, requestsPage >>

component ==
  << pc, isAuthorized, loading, saving, justSaved, message, settings,
     rendered, timer >>

network == << putReq, putResp, stored >>

\* No handler of the editor has a throw statement, and trim, includes,
\* filter and the spread of an array do not throw on the values they get.
Call(op, list, value, index, direction, path) ==
  [ op |-> op, list |-> list, value |-> value, index |-> index,
    direction |-> direction, path |-> path, threw |-> FALSE ]

\* A handler that is given no list.
Handler(op, path) == Call(op, None, EmptyStr, 0, None, path)

\* The editor is on screen: neither the spinner nor "Access denied".
EditorShown == route = "/settings" /\ ~loading /\ isAuthorized

\* ------------------------------------------------------------------ mount

\* No second editor is open.
NoPeer ==
  [ settings |-> InitialSettings, saving |-> FALSE,
    putReq |-> Nothing, putResp |-> Nothing ]

\* 'all', the chip that selects every status.
All == <<"a", "l", "l">>

\* The values useState gives the catalog.
CatalogMounted ==
  /\ apps = << >>
  /\ filterStatus = All
  /\ searchQuery = EmptyStr

\* The layout mounts and its effect starts the auth check.
LayoutMounted ==
  /\ isAuthenticated = FALSE
  /\ userRole = Null
  /\ layoutPc = "me"
  /\ checked = Nothing

\* The API client as the page load leaves it: no token, nothing sent.
SessionMounted ==
  /\ LayoutMounted
  /\ csrfToken = Null
  /\ lastMe = Nothing
  /\ loggedOut = FALSE
  /\ sent = Nothing

\* No EditModal is open.
TagsMounted ==
  /\ itemTags = << >>
  /\ selectedTags = << >>
  /\ editOpen = FALSE
  /\ toggled = Nothing

\* How many times the request modal is opened.
MaxOpenings == 3

\* The values useState gives the RequestAppModal.
ModalMounted == [ loading |-> FALSE, success |-> FALSE, error |-> EmptyStr ]

\* The catalog before "Request App" was clicked.
RequestModalMounted ==
  /\ showRequestModal = FALSE
  /\ modal = ModalMounted
  /\ opening = 0
  /\ submits = {}
  /\ timers = {}
  /\ closes = [o \in 1..MaxOpenings |-> 0]
  /\ answered = Nothing

\* The values useState gives the requests page.
RequestsMounted ==
  /\ requests = << >>
  /\ clicked = Nothing

\* The other pages, untouched.
PagesMounted ==
  /\ SessionMounted
  /\ TagsMounted
  /\ RequestModalMounted
  /\ RequestsMounted

\* The values useState gives a fresh component, and loadData started.
Mounted ==
  /\ pc = "me"
  /\ isAuthorized = FALSE
  /\ loading = TRUE
  /\ saving = FALSE
  /\ justSaved = FALSE
  /\ message = "none"
  /\ settings = InitialSettings
  /\ rendered = InitialSettings
  /\ timer = FALSE

Init ==
  /\ route = "/settings"
  /\ Mounted
  /\ putReq = Nothing
  /\ putResp = Nothing
  /\ stored = ProvisionedSettings
  /\ last = Handler("mount", "ok")
  /\ peer = NoPeer
  /\ CatalogMounted
  /\ PagesMounted

\* A component mounts: every useState gives its initial value again.
Remounted ==
  /\ pc' = "me"
  /\ isAuthorized' = FALSE
  /\ loading' = TRUE
  /\ saving' = FALSE
  /\ justSaved' = FALSE
  /\ message' = "none"
  /\ settings' = InitialSettings
  /\ rendered' = InitialSettings
  /\ timer' = FALSE

\* Navigation back to /settings: a fresh component, its effect runs loadData.
Mount ==
  /\ route # "/settings"
  /\ putReq = Nothing
  /\ putResp = Nothing
  /\ route' = "/settings"
  /\ Remounted
  /\ last' = Handler("mount", "ok")
  /\ UNCHANGED network
  /\ UNCHANGED elsewhere
  /\ UNCHANGED pages

\* The Cancel button and the back arrow: navigate('/admin').  The component
\* is unmounted, its state and the effect of its timer are gone.
Leave ==
  /\ EditorShown
  /\ route' = "/admin"
  /\ Remounted
  /\ last' = Handler("leave", "ok")
  /\ UNCHANGED network
  /\ UNCHANGED elsewhere
  /\ UNCHANGED pages

\* What /api/auth/me can answer.
AuthAnswers == {"admin", "staff", "anonymous", "throw"}

\* A mutant of AuthDone: every authenticated user is let in.
AuthDoneAnyRole(answer) ==
  /\ route = "/settings"
  /\ pc = "me"
  /\ IF answer \in {"admin", "staff"}
       THEN /\ isAuthorized' = TRUE
            /\ pc' = "settings"
            /\ UNCHANGED << route, loading >>
       ELSE /\ route' = "/login"
            /\ pc' = "done"
            /\ loading' = FALSE
            /\ UNCHANGED isAuthorized
  /\ last' = Handler("getCurrentUser", answer)
  /\ UNCHANGED << saving, justSaved, message, settings, rendered, timer >>
  /\ UNCHANGED network
  /\ UNCHANGED elsewhere
  /\ UNCHANGED pages

\* loadData, from the answer of getCurrentUser to the next await.
AuthDone(answer) ==
  /\ route = "/settings"
  /\ pc = "me"
  /\ IF answer = "admin"
       THEN /\ isAuthorized' = TRUE
            /\ pc' = "settings"
            /\ UNCHANGED << route, loading >>
       ELSE /\ route' = (IF answer = "staff" THEN "/apps" ELSE "/login")
            /\ pc' = "done"
            /\ loading' = FALSE
            /\ UNCHANGED isAuthorized
  /\ last' = Handler("getCurrentUser", answer)
  /\ UNCHANGED << saving, justSaved, message, settings, rendered, timer >>
  /\ UNCHANGED network
  /\ UNCHANGED elsewhere
  /\ UNCHANGED pages

\* { ...prev, ...settingsData } on the fields of the settings state.
Merge(prev, data) ==
  [k \in DOMAIN prev |-> IF k \in DOMAIN data THEN data[k] ELSE prev[k]]

\* A mutant of getDistrictSettings: the secret fields of the answer are
\* dropped, the editor keeps its own.
getDistrictSettingsNoSecrets(response) ==
  IF response.ok
    THEN [ soppa_statuses |-> << >>,
           app_statuses   |-> << >>,
           app_tags       |-> << >>,
           allowed_domain |-> response.district.allowed_domain ]
    ELSE [settings |-> << >>]

\* getDistrictSettings(slug): the lists are the literal [], whatever the
\* district holds; a failed fetch gives { settings: {} }.
getDistrictSettings(response) ==
  IF response.ok
    THEN [ soppa_statuses          |-> << >>,
           app_statuses            |-> << >>,
           app_tags                |-> << >>,
           allowed_domain          |-> response.district.allowed_domain,
           google_client_secret    |-> response.district.google_client_secret,
           apple_private_key       |-> response.district.apple_private_key,
           microsoft_client_secret |-> response.district.microsoft_client_secret ]
    ELSE [settings |-> << >>]

\* A secret that is not set: the empty string, or null.
Blank(v) == v \in {EmptyStr, Null}

\* A secret as the backing store serializes it for the editor.
MaskSecret(v) == IF Blank(v) THEN v ELSE Sentinel

\* The district as the backing store serializes it.
Serialized(district) ==
  [k \in DOMAIN district |->
     IF k \in SecretFields THEN MaskSecret(district[k]) ELSE district[k]]

\* The district after the backing store accepted the update body: a secret
\* field that carries the sentinel keeps the value held.
AcceptUpdate(district, body) ==
  [k \in DOMAIN district |->
     IF k \in SecretFields /\ body[k] = Sentinel THEN district[k] ELSE body[k]]

\* GET /api/districts/local: the district as serialized, or a failed fetch.
GetResponses == {[ok |-> TRUE, district |-> Serialized(stored)], [ok |-> FALSE]}

\* loadData, from the answer of getDistrictSettings to its end.
LoadDone(response) ==
  /\ route = "/settings"
  /\ pc = "settings"
  /\ settings' = Merge(settings, getDistrictSettings(response))
  /\ rendered' = settings'
  /\ loading' = FALSE
  /\ pc' = "done"
  /\ last' = Handler("getDistrictSettings", IF response.ok THEN "ok" ELSE "catch")
  /\ UNCHANGED << route, isAuthorized, saving, justSaved, message, timer >>
  /\ UNCHANGED network
  /\ UNCHANGED elsewhere
  /\ UNCHANGED pages

\* ------------------------------------------------------------------ lists

\* A mutant of AddItemStep: every change is sent to the backing store.
AddItemStepAutoSave(list, value) ==
  /\ EditorShown
  /\ settings' = addItem(rendered, settings, list, value)
  /\ rendered' = settings'
  /\ putReq' = <<settings'>>
  /\ UNCHANGED << route, pc, isAuthorized, loading, saving, justSaved, message, timer >>
  /\ UNCHANGED << putResp, stored >>
  /\ UNCHANGED elsewhere
  /\ UNCHANGED pages

\* The Enter key and the + button of a list.
AddItemStep(list, value) ==
  /\ EditorShown
  /\ settings' = addItem(rendered, settings, list, value)
  /\ rendered' = settings'
  /\ UNCHANGED << route, pc, isAuthorized, loading, saving, justSaved, message, timer >>
  /\ UNCHANGED network
  /\ UNCHANGED elsewhere
  /\ UNCHANGED pages

\* The indices removeItem is called with: those of the rendered rows and
\* the two just outside.
RemoveIndices(list) == -1 .. Len(rendered[list])

\* The X button of a row.
RemoveItemStep(list, index) ==
  /\ EditorShown
  /\ settings' = removeItem(settings, list, index)
  /\ rendered' = settings'
  /\ UNCHANGED << route, pc, isAuthorized, loading, saving, justSaved, message, timer >>
  /\ UNCHANGED network
  /\ UNCHANGED elsewhere
  /\ UNCHANGED pages

\* The indices of the rendered rows.
RowIndices(list) == 0 .. Len(rendered[list]) - 1

\* The up and down buttons of a row.
MoveItemStep(list, index, direction) ==
  /\ EditorShown
  /\ settings' = moveItem(rendered, settings, list, index, direction)
  /\ rendered' = settings'
  /\ UNCHANGED << route, pc, isAuthorized, loading, saving, justSaved, message, timer >>
  /\ UNCHANGED network
  /\ UNCHANGED elsewhere
  /\ UNCHANGED pages

\* ------------------------------------------------------------------ batch

\* Largest number of entries the three lists hold together, where handlers
\* run on a render that is behind the state (SpecBatch).
MaxBatchItems == 2

\* What is typed into a "new item" input there.
BatchInputs == { <<"A">>, <<" ", "A">>, <<"B">> }

\* addItem called from the handlers of the last render, the component not
\* rendered again yet: the guard reads that render, the update the state.
AddItemCall(list, value) ==
  /\ EditorShown
  /\ settings' = addItem(rendered, settings, list, value)
  /\ last' = Handler("addItem", addItemPath(rendered, list, value))
  /\ UNCHANGED << route, pc, isAuthorized, loading, saving, justSaved, message, timer >>
  /\ UNCHANGED rendered
  /\ UNCHANGED network
  /\ UNCHANGED elsewhere
  /\ UNCHANGED pages

\* removeItem called from a row of the last render.
RemoveItemCall(list, index) ==
  /\ EditorShown
  /\ settings' = removeItem(settings, list, index)
  /\ last' = Handler("removeItem", removeItemPath(settings, list, index))
  /\ UNCHANGED << route, pc, isAuthorized, loading, saving, justSaved, message, timer >>
  /\ UNCHANGED rendered
  /\ UNCHANGED network
  /\ UNCHANGED elsewhere
  /\ UNCHANGED pages

\* moveItem called from a row of the last render.
MoveItemCall(list, index, direction) ==
  /\ EditorShown
  /\ settings' = moveItem(rendered, settings, list, index, direction)
  /\ last' = Handler("moveItem", moveItemPath(rendered, list, index, direction))
  /\ UNCHANGED << route, pc, isAuthorized, loading, saving, justSaved, message, timer >>
  /\ UNCHANGED rendered
  /\ UNCHANGED network
  /\ UNCHANGED elsewhere
  /\ UNCHANGED pages

\* React renders the component with the state it holds.
Render ==
  /\ EditorShown
  /\ rendered # settings
  /\ rendered' = settings
  /\ last' = Handler("render", "ok")
  /\ UNCHANGED << route, pc, isAuthorized, loading, saving, justSaved, message, settings, timer >>
  /\ UNCHANGED network
  /\ UNCHANGED elsewhere
  /\ UNCHANGED pages

\* ------------------------------------------------------------------ secrets

\* What the user can type or paste into a secret input.
SecretInputs == { << >>, <<" ", "n", " ">>, Sentinel }

\* The value onChange stores: e.target.value.trim() || null for the two
\* client secrets, e.target.value || null for the Apple private key.
SecretValue(field, text) ==
  LET v == IF field = "apple_private_key" THEN text ELSE Trim(text)
  IN  IF v = EmptyStr THEN Null ELSE v

\* onChange of a secret input.
SecretInput(field, text) ==
  /\ EditorShown
  /\ settings' = [settings EXCEPT ![field] = SecretValue(field, text)]
  /\ rendered' = settings'
  /\ last' = Handler("onChange", field)
  /\ UNCHANGED << route, pc, isAuthorized, loading, saving, justSaved, message, timer >>
  /\ UNCHANGED network
  /\ UNCHANGED elsewhere
  /\ UNCHANGED pages

\* ------------------------------------------------------------------ save

\* const jsonHeaders = { 'Content-Type': 'application/json' }
jsonHeaders == [h \in {"Content-Type"} |-> "application/json"]

\* updateDistrictSettings(slug, data): the request given to fetch.  The
\* body is JSON.stringify(data), the data and nothing added to it.
updateDistrictSettings(data) ==
  [ method |-> "PUT", credentials |-> "include", headers |-> jsonHeaders,
    body |-> data ]

\* A mutant of HandleSave: a secret field that was not typed into is sent
\* as the empty string.
HandleSaveBlankUnedited ==
  /\ EditorShown
  /\ ~(saving \/ justSaved)
  /\ saving' = TRUE
  /\ message' = "none"
  /\ putReq' = << [k \in DOMAIN rendered |->
                    IF k \in SecretFields /\ rendered[k] = Sentinel
                      THEN EmptyStr
                      ELSE rendered[k]] >>
  /\ last' = Handler("handleSave", "await")
  /\ UNCHANGED << route, pc, isAuthorized, loading, justSaved, settings, rendered, timer >>
  /\ UNCHANGED << putResp, stored >>
  /\ UNCHANGED elsewhere
  /\ UNCHANGED pages

\* A mutant of HandleSave: the lists are sent, the other fields as useState
\* gave them.
HandleSaveListsOnly ==
  /\ EditorShown
  /\ ~(saving \/ justSaved)
  /\ saving' = TRUE
  /\ message' = "none"
  /\ putReq' = << [k \in DOMAIN rendered |->
                    IF k \in Lists THEN rendered[k] ELSE InitialSettings[k]] >>
  /\ last' = Handler("handleSave", "await")
  /\ UNCHANGED << route, pc, isAuthorized, loading, justSaved, settings, rendered, timer >>
  /\ UNCHANGED << putResp, stored >>
  /\ UNCHANGED elsewhere
  /\ UNCHANGED pages

\* handleSave up to its await: the button is disabled while saving or
\* justSaved; the body is the settings of the render the click was made on.
HandleSave ==
  /\ EditorShown
  /\ ~(saving \/ justSaved)
  /\ saving' = TRUE
  /\ message' = "none"
  /\ putReq' = <<rendered>>
  /\ last' = Handler("handleSave", "await")
  /\ UNCHANGED << route, pc, isAuthorized, loading, justSaved, settings, rendered, timer >>
  /\ UNCHANGED << putResp, stored >>
  /\ UNCHANGED elsewhere
  /\ UNCHANGED pages

\* What becomes of a PUT: stored and answered { success: true }, refused
\* with an answer that has no success, or the fetch rejects.
PutOutcomes == {"success", "error", "reject"}

\* PUT /api/districts/local at the backing store.
ServerPut(outcome) ==
  /\ putReq # Nothing
  /\ stored' = (IF outcome = "success" THEN AcceptUpdate(stored, putReq[1]) ELSE stored)
  /\ putReq' = Nothing
  /\ putResp' = <<outcome>>
  /\ UNCHANGED << route, last >>
  /\ UNCHANGED component
  /\ UNCHANGED elsewhere
  /\ UNCHANGED pages

\* A mutant of SaveDone: a save that failed puts the settings state back to
\* its initial value.
SaveDoneReset ==
  /\ route = "/settings"
  /\ saving
  /\ putResp # Nothing
  /\ IF putResp[1] = "success"
       THEN /\ justSaved' = TRUE
            /\ timer' = TRUE
            /\ message' = "success"
            /\ UNCHANGED << settings, rendered >>
       ELSE /\ message' = "error"
            /\ settings' = InitialSettings
            /\ rendered' = InitialSettings
            /\ UNCHANGED << justSaved, timer >>
  /\ saving' = FALSE
  /\ putResp' = Nothing
  /\ last' = Handler("handleSave", putResp[1])
  /\ UNCHANGED << route, pc, isAuthorized, loading >>
  /\ UNCHANGED << putReq, stored >>
  /\ UNCHANGED elsewhere
  /\ UNCHANGED pages

\* handleSave after its await, in the component that issued the request.
SaveDone ==
  /\ route = "/settings"
  /\ saving
  /\ putResp # Nothing
  /\ IF putResp[1] = "success"
       THEN /\ justSaved' = TRUE
            /\ timer' = TRUE
            /\ message' = "success"
       ELSE /\ message' = "error"
            /\ UNCHANGED << justSaved, timer >>
  /\ saving' = FALSE
  /\ putResp' = Nothing
  /\ last' = Handler("handleSave", putResp[1])
  /\ UNCHANGED << route, pc, isAuthorized, loading, settings, rendered >>
  /\ UNCHANGED << putReq, stored >>
  /\ UNCHANGED elsewhere
  /\ UNCHANGED pages

\* The answer of a PUT whose component is gone changes no state.
DropResponse ==
  /\ route # "/settings"
  /\ putResp # Nothing
  /\ putResp' = Nothing
  /\ UNCHANGED << route, last, putReq, stored >>
  /\ UNCHANGED component
  /\ UNCHANGED elsewhere
  /\ UNCHANGED pages

\* setTimeout(() => setJustSaved(false), 2000)
TimerFire ==
  /\ route = "/settings"
  /\ timer
  /\ justSaved' = FALSE
  /\ timer' = FALSE
  /\ last' = Handler("timer", "ok")
  /\ UNCHANGED << route, pc, isAuthorized, loading, saving, message, settings, rendered >>
  /\ UNCHANGED network
  /\ UNCHANGED elsewhere
  /\ UNCHANGED pages

\* ------------------------------------------------------------------ peer

\* The largest number of entries the lists of one editor hold together,
\* where two editors are open (SpecPeers).
MaxPeerItems == 1

\* What the first admin types into a "new item" input, and the second.
OwnInputs == { <<"a">> }
PeerInputs == { <<" ", "B">> }

\* The settings of an editor whose loadData ended with the district.
Loaded(district) ==
  Merge(InitialSettings,
        getDistrictSettings([ok |-> TRUE, district |-> Serialized(district)]))

\* addItem in the editor of the second admin.  Each of its events is
\* rendered before the next, so the guard reads the state it updates.
PeerAddItem(list, value) ==
  /\ peer' = [peer EXCEPT !.settings = addItem(@, @, list, value)]
  /\ peer'.settings # peer.settings
  /\ UNCHANGED << route, last, apps, filterStatus, searchQuery >>
  /\ UNCHANGED component
  /\ UNCHANGED pages
  /\ UNCHANGED network

\* handleSave of the second admin, up to its await.  Its justSaved is left
\* out: the timer that clears it can fire before the next click.
PeerHandleSave ==
  /\ ~peer.saving
  /\ peer' = [peer EXCEPT !.saving = TRUE, !.putReq = << peer.settings >>]
  /\ UNCHANGED << route, last, apps, filterStatus, searchQuery >>
  /\ UNCHANGED component
  /\ UNCHANGED pages
  /\ UNCHANGED network

\* PUT /api/districts/local of the second admin at the backing store.
ServerPeerPut(outcome) ==
  /\ peer.putReq # Nothing
  /\ stored' = (IF outcome = "success"
                  THEN AcceptUpdate(stored, peer.putReq[1])
                  ELSE stored)
  /\ peer' = [peer EXCEPT !.putReq = Nothing, !.putResp = <<outcome>>]
  /\ UNCHANGED << route, last, putReq, putResp, apps, filterStatus, searchQuery >>
  /\ UNCHANGED component
  /\ UNCHANGED pages

\* handleSave of the second admin after its await.
PeerSaveDone ==
  /\ peer.saving
  /\ peer.putResp # Nothing
  /\ peer' = [peer EXCEPT !.saving = FALSE, !.putResp = Nothing]
  /\ UNCHANGED << route, last, apps, filterStatus, searchQuery >>
  /\ UNCHANGED component
  /\ UNCHANGED pages
  /\ UNCHANGED network

\* ------------------------------------------------------------------ catalog

\* The largest number of apps the catalog loads (SpecCatalog).
MaxApps == 2

\* String.prototype.toLowerCase on the letters used.
LowerChar(c) ==
  CASE c = "A" -> "a"
    [] c = "B" -> "b"
    [] c = "C" -> "c"
    [] OTHER   -> c

toLowerCase(s) == [i \in 1..Len(s) |-> LowerChar(s[i])]

\* String.prototype.includes: t occurs in s.
StrIncludes(s, t) ==
  \E i \in 0..(Len(s) - Len(t)) : SubSeq(s, i + 1, i + Len(t)) = t

\* The statuses apps have; a status is compared as a whole.
Pending == <<"P">>
Approved == <<"Q">>
Retired == <<"Z">>

\* The apps the backing store can answer with: the company of an app is
\* optional.
AppPool ==
  { [id |-> 1, name |-> <<"A", "b">>, company |-> <<"x">>,      status |-> Approved],
    [id |-> 2, name |-> <<"b">>,      company |-> Null,          status |-> Pending],
    [id |-> 3, name |-> <<"c">>,      company |-> <<"A", "B">>, status |-> Approved],
    [id |-> 4, name |-> <<"B", "c">>, company |-> EmptyStr,      status |-> Retired] }

\* The app lists the store can answer with: apps of the pool, each at most
\* once, in any order.
AppLists ==
  UNION { { l \in [1..n -> AppPool] : \A i, j \in 1..n : i # j => l[i].id # l[j].id }
          : n \in 0..MaxApps }

\* [...new Set(values)]: the first occurrences, in their order.
RECURSIVE SetOf(_)
SetOf(values) ==
  IF values = << >>
    THEN << >>
    ELSE LET front == SetOf(SubSeq(values, 1, Len(values) - 1))
             x == values[Len(values)]
         IN  IF \E k \in 1..Len(front) : front[k] = x THEN front ELSE Append(front, x)

\* const statuses = ['all', ...new Set(apps.map((app) => app.status))]
statuses == <<All>> \o SetOf([i \in 1..Len(apps) |-> apps[i].status])

\* The value of app.company && ... in a condition: false for a company
\* that is undefined, null or ''.
Truthy(v) == v \notin {EmptyStr, Null}

\* A mutant of filteredApps: the search compares the letters as written.
filteredAppsCaseSensitive ==
  SelectSeq(apps, LAMBDA app :
    /\ filterStatus = All \/ app.status = filterStatus
    /\ \/ StrIncludes(app.name, searchQuery)
       \/ Truthy(app.company) /\ StrIncludes(app.company, searchQuery))

\* const filteredApps = apps.filter((app) => matchesStatus && matchesSearch)
filteredApps ==
  SelectSeq(apps, LAMBDA app :
    /\ filterStatus = All \/ app.status = filterStatus
    /\ \/ StrIncludes(toLowerCase(app.name), toLowerCase(searchQuery))
       \/ /\ Truthy(app.company)
          /\ StrIncludes(toLowerCase(app.company), toLowerCase(searchQuery)))

\* The status options of EditAppModal, each written as one piece.
EditStatusOptions ==
  << <<"Pending">>, <<"Approved for Use">>, <<"Core Tool">>,
     <<"Supplemental Tool">>, <<"Not Supported by District">>,
     <<"Reviewed & Denied">> >>

\* What getDistrictApps resolves to: an array, an object with an array as
\* its apps, or anything else.
AppAnswers ==
  { [shape |-> sh, apps |-> l] : sh \in {"array", "apps"}, l \in AppLists }
    \cup { [shape |-> "other", apps |-> << >>] }

\* loadApps, on the answer of getDistrictApps: at mount, and again after a
\* delete that succeeded.  (The loading flag of the catalog, true until the
\* first answer while apps is still [], is left out.)
LoadApps(data) ==
  /\ route = "/apps"
  /\ apps' = (IF data.shape \in {"array", "apps"} THEN data.apps ELSE << >>)
  /\ last' = Handler("loadApps", data.shape)
  /\ UNCHANGED << route, peer, filterStatus, searchQuery >>
  /\ UNCHANGED component
  /\ UNCHANGED pages
  /\ UNCHANGED network

\* loadApps, getDistrictApps rejecting: .catch((err) => console.error(err))
LoadAppsFailed ==
  /\ route = "/apps"
  /\ last' = Handler("loadApps", "catch")
  /\ UNCHANGED << route, peer, apps, filterStatus, searchQuery >>
  /\ UNCHANGED component
  /\ UNCHANGED pages
  /\ UNCHANGED network

\* The click on a status chip.
SetFilterStatus(k) ==
  /\ route = "/apps"
  /\ k \in 1..Len(statuses)
  /\ filterStatus' = statuses[k]
  /\ last' = Handler("setFilterStatus", "ok")
  /\ UNCHANGED << route, peer, apps, searchQuery >>
  /\ UNCHANGED component
  /\ UNCHANGED pages
  /\ UNCHANGED network

\* What the user types into the search input.
SearchInputs == { << >>, <<"a", "B">>, <<"b">> }

\* onChange of the search input.
SetSearchQuery(text) ==
  /\ route = "/apps"
  /\ searchQuery' = text
  /\ last' = Handler("setSearchQuery", "ok")
  /\ UNCHANGED << route, peer, apps, filterStatus >>
  /\ UNCHANGED component
  /\ UNCHANGED pages
  /\ UNCHANGED network

\* ------------------------------------------------------------------ spec

\* The list handlers, with the call written to the history: in Spec the
\* handler and the return it took, in SpecLists its arguments as well.
AddItemNoted(list, value, args) ==
  /\ AddItemStep(list, value)
  /\ last' = IF args
       THEN Call("addItem", list, value, 0, None, addItemPath(rendered, list, value))
       ELSE Handler("addItem", addItemPath(rendered, list, value))

RemoveItemNoted(list, index, args) ==
  /\ RemoveItemStep(list, index)
  /\ last' = IF args
       THEN Call("removeItem", list, EmptyStr, index, None,
                 removeItemPath(settings, list, index))
       ELSE Handler("removeItem", removeItemPath(settings, list, index))

MoveItemNoted(list, index, direction, args) ==
  /\ MoveItemStep(list, index, direction)
  /\ last' = IF args
       THEN Call("moveItem", list, EmptyStr, index, direction,
                 moveItemPath(rendered, list, index, direction))
       ELSE Handler("moveItem", moveItemPath(rendered, list, index, direction))

Next ==
  \/ Mount
  \/ Leave
  \/ \E answer \in AuthAnswers : AuthDone(answer)
  \/ \E response \in GetResponses : LoadDone(response)
  \/ \E list \in Lists : \E value \in StoreInputs :
        AddItemNoted(list, value, FALSE) /\ TotalLen(settings') <= MaxStoreItems
  \/ \E list \in Lists : \E index \in RemoveIndices(list) :
        RemoveItemNoted(list, index, FALSE)
  \/ \E list \in Lists : \E index \in RowIndices(list) :
        \E direction \in Directions : MoveItemNoted(list, index, direction, FALSE)
  \/ HandleSave
  \/ ServerPut("success")
  \/ ServerPut("error")
  \/ ServerPut("reject")
  \/ SaveDone
  \/ DropResponse
  \/ TimerFire

Spec == Init /\ [][Next]_vars

\* The editor taken alone: an admin has it on screen, the load is over, and
\* the lists are edited.
InitLists ==
  /\ route = "/settings"
  /\ pc = "done"
  /\ isAuthorized = TRUE
  /\ loading = FALSE
  /\ saving = FALSE
  /\ justSaved = FALSE
  /\ message = "none"
  /\ settings = ProvisionedSettings
  /\ rendered = ProvisionedSettings
  /\ timer = FALSE
  /\ putReq = Nothing
  /\ putResp = Nothing
  /\ stored = ProvisionedSettings
  /\ last = Handler("getDistrictSettings", "ok")
  /\ peer = NoPeer
  /\ CatalogMounted
  /\ PagesMounted

NextLists ==
  \/ \E list \in Lists : \E value \in Inputs :
        AddItemNoted(list, value, TRUE) /\ TotalLen(settings') <= MaxItems
  \/ \E list \in Lists : \E index \in RemoveIndices(list) :
        RemoveItemNoted(list, index, TRUE)
  \/ \E list \in Lists : \E index \in RowIndices(list) :
        \E direction \in Directions : MoveItemNoted(list, index, direction, TRUE)

SpecLists == InitLists /\ [][NextLists]_vars

\* Two admins have the editor on screen, each loaded from the district.
InitPeers ==
  /\ route = "/settings"
  /\ pc = "done"
  /\ isAuthorized = TRUE
  /\ loading = FALSE
  /\ saving = FALSE
  /\ justSaved = FALSE
  /\ message = "none"
  /\ stored = ProvisionedSettings
  /\ settings = Loaded(stored)
  /\ rendered = settings
  /\ timer = FALSE
  /\ putReq = Nothing
  /\ putResp = Nothing
  /\ last = Handler("getDistrictSettings", "ok")
  /\ peer = [NoPeer EXCEPT !.settings = Loaded(stored)]
  /\ CatalogMounted
  /\ PagesMounted

NextPeers ==
  \/ \E list \in Lists : \E value \in OwnInputs :
        AddItemNoted(list, value, FALSE) /\ TotalLen(settings') <= MaxPeerItems
  \/ HandleSave
  \/ ServerPut("success")
  \/ ServerPut("error")
  \/ SaveDone
  \/ TimerFire
  \/ \E list \in Lists : \E value \in PeerInputs :
        PeerAddItem(list, value) /\ TotalLen(peer'.settings) <= MaxPeerItems
  \/ PeerHandleSave
  \/ ServerPeerPut("success")
  \/ ServerPeerPut("error")
  \/ PeerSaveDone

SpecPeers == InitPeers /\ [][NextPeers]_vars

\* The editor taken alone, its handlers called one or several times between
\* two renders: when React renders is the choice of its scheduler.
NextBatch ==
  \/ \E list \in Lists : \E value \in BatchInputs :
        AddItemCall(list, value) /\ TotalLen(settings') <= MaxBatchItems
  \/ \E list \in Lists : \E index \in RowIndices(list) :
        RemoveItemCall(list, index)
  \/ \E list \in Lists : \E index \in RowIndices(list) :
        \E direction \in Directions :
          MoveItemCall(list, index, direction) /\ TotalLen(settings') <= MaxBatchItems
  \/ Render

SpecBatch == InitLists /\ [][NextBatch]_vars

\* The app_statuses an admin has configured and saved.
ConfiguredStatuses == { << >>, << Pending, Approved >> }

\* The catalog is on screen; the district holds the configured statuses.
InitCatalog ==
  /\ route = "/apps"
  /\ Mounted
  /\ putReq = Nothing
  /\ putResp = Nothing
  /\ \E configured \in ConfiguredStatuses :
       stored = [ProvisionedSettings EXCEPT !.app_statuses = configured]
  /\ last = Handler("mount", "ok")
  /\ peer = NoPeer
  /\ CatalogMounted
  /\ PagesMounted

NextCatalog ==
  \/ \E data \in AppAnswers : LoadApps(data)
  \/ LoadAppsFailed
  \/ \E k \in 1..(MaxApps + 1) : SetFilterStatus(k)
  \/ \E text \in SearchInputs : SetSearchQuery(text)

SpecCatalog == InitCatalog /\ [][NextCatalog]_vars

\* A secret a district holds when the editor is opened: none, or one set.
StoredSecrets == { EmptyStr, <<"s">> }

\* The editor with its backing store, the lists left alone and the secret
\* fields edited: the district holds no secret, or all three.
InitSecrets ==
  /\ route = "/settings"
  /\ Mounted
  /\ putReq = Nothing
  /\ putResp = Nothing
  /\ \E s \in StoredSecrets :
       stored = [ProvisionedSettings EXCEPT !.google_client_secret = s,
                                            !.apple_private_key = s,
                                            !.microsoft_client_secret = s]
  /\ last = Handler("mount", "ok")
  /\ peer = NoPeer
  /\ CatalogMounted
  /\ PagesMounted

\* The secret inputs typed into: one of the two that trim, and the one
\* that does not.
TypedFields == {"google_client_secret", "apple_private_key"}

NextSecrets ==
  \/ Mount
  \/ Leave
  \/ \E answer \in AuthAnswers : AuthDone(answer)
  \/ \E response \in GetResponses : LoadDone(response)
  \/ \E field \in TypedFields : \E text \in SecretInputs : SecretInput(field, text)
  \/ HandleSave
  \/ ServerPut("success")
  \/ ServerPut("error")
  \/ ServerPut("reject")
  \/ SaveDone
  \/ DropResponse
  \/ TimerFire

SpecSecrets == InitSecrets /\ [][NextSecrets]_vars

\* ------------------------------------------------- layout and API client

\* What a step of the layout or of the API client leaves alone.
exceptSession ==
  << route, last, component, network, elsewhere, tagEditor, requestModal,
     requestsPage >>

AdminRole == <<"a", "d", "m", "i", "n">>
StaffRole == <<"s", "t", "a", "f", "f">>

\* The CSRF tokens a session may carry.
Tokens == { <<"t", "1">>, <<"t", "2">> }

\* What JavaScript takes for false among strings, null and undefined.
Falsy(v) == v \in {EmptyStr, Null, Undefined}

\* The bodies /api/auth/me may answer with: user.role and csrf_token may be
\* missing, and the call throws when the request or the parsing fails.
MeAnswers ==
  [ threw : {FALSE},
    authenticated : BOOLEAN,
    role : {AdminRole, StaffRole, EmptyStr, Null, Undefined},
    csrf_token : Tokens \cup {Undefined} ]

Threw ==
  [ threw |-> TRUE, authenticated |-> FALSE, role |-> Undefined,
    csrf_token |-> Undefined ]

\* The value of csrfToken after cacheCsrfToken(token).
cacheCsrfToken(token) == IF Falsy(token) THEN csrfToken ELSE token

\* getCurrentUser got its response: the token is cached.
getCurrentUser(data) ==
  /\ csrfToken' = cacheCsrfToken(data.csrf_token)
  /\ lastMe' = <<data>>
  /\ loggedOut' = FALSE

\* A mutant of navItems: the items depend on the role alone.
navItemsByRoleAlone ==
  <<"Apps">> \o
    ( IF ~Falsy(userRole)
        THEN <<"Staff", "Activity">> \o
               (IF userRole = AdminRole THEN <<"Admin">> ELSE << >>)
        ELSE << >> )

\* The labels of the navigation the layout renders.
navItems ==
  <<"Apps">> \o
    ( IF isAuthenticated /\ ~Falsy(userRole)
        THEN <<"Staff", "Activity">> \o
               (IF userRole = AdminRole THEN <<"Admin">> ELSE << >>)
        ELSE << >> )

\* The auth check of the layout is answered.
LayoutAuthDone(data) ==
  /\ layoutPc = "me"
  /\ getCurrentUser(data)
  /\ isAuthenticated' = (data.authenticated = TRUE)
  /\ userRole' = IF Falsy(data.role) THEN Null ELSE data.role
  /\ layoutPc' = "done"
  /\ checked' = <<data>>
  /\ UNCHANGED sent
  /\ UNCHANGED exceptSession

\* The auth check of the layout fails.
LayoutAuthFailed ==
  /\ layoutPc = "me"
  /\ isAuthenticated' = FALSE
  /\ userRole' = Null
  /\ layoutPc' = "done"
  /\ checked' = <<Threw>>
  /\ UNCHANGED << csrfToken, lastMe, loggedOut, sent >>
  /\ UNCHANGED exceptSession

\* Another component (UserNav, a page) asks /api/auth/me and is answered.
GetCurrentUserDone(data) ==
  /\ getCurrentUser(data)
  /\ UNCHANGED << isAuthenticated, userRole, layoutPc, checked, sent >>
  /\ UNCHANGED exceptSession

\* UserNav's "Sign out": the logout is posted, the token cache is not touched.
HandleLogout ==
  /\ loggedOut' = TRUE
  /\ UNCHANGED << isAuthenticated, userRole, layoutPc, checked, csrfToken, lastMe,
                  sent >>
  /\ UNCHANGED exceptSession

\* ensureCsrfToken: the cached token if there is one, else the one
\* /api/auth/me answers with; csrfToken' is the token the caller gets, but
\* null when the call threw.
EnsureCsrfToken(answer) ==
  IF ~Falsy(csrfToken) \/ answer.threw
    THEN UNCHANGED << csrfToken, lastMe, loggedOut >>
    ELSE getCurrentUser(answer)

\* The token ensureCsrfToken returned.
Ensured(answer) ==
  IF Falsy(csrfToken) /\ answer.threw THEN Null ELSE csrfToken'

ContactRequest(op, token) == [ op |-> op, csrf_token |-> token ]

AddAppContact(answer) ==
  /\ EnsureCsrfToken(answer)
  /\ sent' = << ContactRequest("addAppContact", Ensured(answer)) >>
  /\ UNCHANGED << isAuthenticated, userRole, layoutPc, checked >>
  /\ UNCHANGED exceptSession

DeleteDistrictAppContact(answer) ==
  /\ EnsureCsrfToken(answer)
  /\ sent' = << ContactRequest("deleteDistrictAppContact", Ensured(answer)) >>
  /\ UNCHANGED << isAuthenticated, userRole, layoutPc, checked >>
  /\ UNCHANGED exceptSession

\* The browser loads the page again: the module and the layout start over.
Reload ==
  /\ layoutPc = "done"
  /\ isAuthenticated' = FALSE
  /\ userRole' = Null
  /\ layoutPc' = "me"
  /\ checked' = Nothing
  /\ csrfToken' = Null
  /\ lastMe' = Nothing
  /\ loggedOut' = FALSE
  /\ sent' = Nothing
  /\ UNCHANGED exceptSession

NextSession ==
  \/ \E data \in MeAnswers : LayoutAuthDone(data)
  \/ LayoutAuthFailed
  \/ \E data \in MeAnswers : GetCurrentUserDone(data)
  \/ HandleLogout
  \/ \E answer \in MeAnswers \cup {Threw} : AddAppContact(answer)
  \/ \E answer \in MeAnswers \cup {Threw} : DeleteDistrictAppContact(answer)
  \/ Reload

SpecSession == Init /\ [][NextSession]_vars

\* --------------------------------------------------------- tag selection

\* The settings page, the second editor and the catalog as a page load
\* leaves them.
RestMounted ==
  /\ route = "/settings"
  /\ Mounted
  /\ putReq = Nothing
  /\ putResp = Nothing
  /\ stored = ProvisionedSettings
  /\ last = Handler("mount", "ok")
  /\ peer = NoPeer
  /\ CatalogMounted

\* What a step of the EditModal leaves alone.
exceptTags ==
  << route, last, component, network, elsewhere, session, requestModal,
     requestsPage >>

\* The tags prop of the TagSelector.
AllTags == {"math", "reading", "science"}

\* The lists over AllTags without a repeated tag.
TagLists ==
  { list \in UNION { [1..n -> AllTags] : n \in 0..Cardinality(AllTags) } :
      \A i, j \in 1..Len(list) : list[i] = list[j] => i = j }

\* The tags an item may come with: a list, also one that names a tag twice,
\* or none.
ItemTags == TagLists \cup { <<"math", "reading", "math">>, Undefined }

\* A mutant of toggleTag: the tag is appended whether selected or not.
toggleTagAlwaysAppend(selected, tag) == Append(selected, tag)

\* The list toggleTag hands to onChange.
toggleTag(selected, tag) ==
  IF Includes(selected, tag)
    THEN SelectSeq(selected, LAMBDA t : t # tag)
    ELSE Append(selected, tag)

\* The EditModal is rendered for the item.
OpenEdit ==
  /\ ~editOpen
  /\ editOpen' = TRUE
  /\ selectedTags' = IF itemTags = Undefined THEN << >> ELSE itemTags
  /\ toggled' = Nothing
  /\ UNCHANGED itemTags
  /\ UNCHANGED exceptTags

\* A click on a tag of the TagSelector; onChange is setSelectedTags.
ToggleTag(tag) ==
  /\ editOpen
  /\ selectedTags' = toggleTag(selectedTags, tag)
  /\ toggled' = <<tag>>
  /\ UNCHANGED << itemTags, editOpen >>
  /\ UNCHANGED exceptTags

\* Save: the item goes to onSave with the selection as its tags, then onClose.
HandleSaveTags ==
  /\ editOpen
  /\ itemTags' = selectedTags
  /\ editOpen' = FALSE
  /\ UNCHANGED << selectedTags, toggled >>
  /\ UNCHANGED exceptTags

\* Cancel: onClose.
CancelEdit ==
  /\ editOpen
  /\ editOpen' = FALSE
  /\ UNCHANGED << itemTags, selectedTags, toggled >>
  /\ UNCHANGED exceptTags

InitTags ==
  /\ RestMounted
  /\ SessionMounted
  /\ RequestModalMounted
  /\ RequestsMounted
  /\ itemTags \in ItemTags
  /\ selectedTags = << >>
  /\ editOpen = FALSE
  /\ toggled = Nothing

NextTags ==
  \/ OpenEdit
  \/ \E tag \in AllTags : ToggleTag(tag)
  \/ HandleSaveTags
  \/ CancelEdit

SpecTags == InitTags /\ [][NextTags]_vars

\* ------------------------------------------------------ request-app modal

\* What a step of the request modal leaves alone.
exceptRequestModal ==
  << route, last, component, network, elsewhere, session, tagEditor,
     requestsPage >>

\* What POST /api/requests may come back with: the status (0: fetch rejects),
\* whether the body parses as JSON, and whether it carries an error.
Responses ==
  { [ status |-> 201, json |-> TRUE,  error |-> FALSE ],
    [ status |-> 200, json |-> TRUE,  error |-> TRUE ],
    [ status |-> 400, json |-> TRUE,  error |-> TRUE ],
    [ status |-> 401, json |-> TRUE,  error |-> TRUE ],
    [ status |-> 500, json |-> FALSE, error |-> FALSE ],
    [ status |-> 0,   json |-> FALSE, error |-> FALSE ] }

SignIn == <<"Please sign in to submit a request.">>
OtherMessage == <<"Failed to submit request">>

\* createAppRequest: the message of what it throws, '' when it resolves.
createAppRequest(response) ==
  IF response.status = 0 THEN OtherMessage
  ELSE IF response.status = 401 THEN SignIn
  ELSE IF ~response.json THEN OtherMessage
  ELSE EmptyStr

\* The modal of opening o is the one on screen.
Shown(o) == showRequestModal /\ opening = o

\* "Request App".
OpenRequestModal ==
  /\ ~showRequestModal
  /\ opening < MaxOpenings
  /\ showRequestModal' = TRUE
  /\ opening' = opening + 1
  /\ modal' = ModalMounted
  /\ UNCHANGED << submits, timers, closes, answered >>
  /\ UNCHANGED exceptRequestModal

\* onClose by hand: the backdrop, the X, Cancel, or Close on the success view.
CloseRequestModal ==
  /\ showRequestModal
  /\ showRequestModal' = FALSE
  /\ closes' = [closes EXCEPT ![opening] = @ + 1]
  /\ modal' = ModalMounted
  /\ UNCHANGED << opening, submits, timers, answered >>
  /\ UNCHANGED exceptRequestModal

\* handleSubmit up to its await; the submit button is disabled while loading.
HandleSubmit ==
  /\ showRequestModal
  /\ ~modal.success
  /\ ~modal.loading
  /\ modal' = [modal EXCEPT !.loading = TRUE, !.error = EmptyStr]
  /\ submits' = submits \cup {opening}
  /\ UNCHANGED << showRequestModal, opening, timers, closes, answered >>
  /\ UNCHANGED exceptRequestModal

\* handleSubmit after its await, for the modal of opening o: the state is set
\* only while that modal is mounted, the timer is started either way.
SubmitDone(o, response) ==
  LET thrown == createAppRequest(response) IN
  /\ o \in submits
  /\ submits' = submits \ {o}
  /\ answered' = <<response>>
  /\ timers' = IF thrown = EmptyStr THEN timers \cup {o} ELSE timers
  /\ modal' = IF ~Shown(o) THEN modal
              ELSE IF thrown = EmptyStr
                THEN [modal EXCEPT !.success = TRUE, !.loading = FALSE]
                ELSE [modal EXCEPT !.error = thrown, !.loading = FALSE]
  /\ UNCHANGED << showRequestModal, opening, closes >>
  /\ UNCHANGED exceptRequestModal

\* The timer of opening o fires, two seconds after its submission succeeded:
\* onClose, which is setShowRequestModal(false).
RequestTimerFire(o) ==
  /\ o \in timers
  /\ timers' = timers \ {o}
  /\ closes' = [closes EXCEPT ![o] = @ + 1]
  /\ showRequestModal' = FALSE
  /\ modal' = ModalMounted
  /\ UNCHANGED << opening, submits, answered >>
  /\ UNCHANGED exceptRequestModal

NextRequestModal ==
  \/ OpenRequestModal
  \/ CloseRequestModal
  \/ HandleSubmit
  \/ \E o \in 1..MaxOpenings, response \in Responses : SubmitDone(o, response)
  \/ \E o \in 1..MaxOpenings : RequestTimerFire(o)

SpecRequestModal == Init /\ [][NextRequestModal]_vars

\* ---------------------------------------------------------- requests page

\* What a step of the requests page leaves alone.
exceptRequests ==
  << route, last, component, network, elsewhere, session, tagEditor,
     requestModal >>

\* How many rows the table of requests has.
MaxRequests == 3

Denied == <<"D">>

\* The statuses of the rows handed to the table, also one that is none of the
\* three. The rows are drawn as the input of the table: getAppRequests as
\* written never delivers any.
RequestLists ==
  UNION { [1..n -> {Pending, Approved, Denied, Retired}] : n \in 0..MaxRequests }

RequestRows(list) == [i \in 1..Len(list) |-> [id |-> i, status |-> list[i]]]

\* getAppRequests as written: it answers an object, not an array.
getAppRequests == [ array |-> FALSE, requests |-> << >> ]

\* The requests after loadRequests.
loadRequests(data) == IF data.array THEN data.requests ELSE requests

\* A mutant of RequestButtons: a row that is not Pending offers Deny as well.
RequestButtonsWithDeny(status) ==
  IF status = Pending THEN <<Approved, Denied>> ELSE <<Pending, Denied>>

\* The statuses the buttons of a row pass to handleStatusUpdate.
RequestButtons(status) ==
  IF status = Pending THEN <<Approved, Denied>> ELSE <<Pending>>

\* A click on the k-th button of row i: updateAppRequestStatus as written
\* answers { success: true } and sends nothing, then loadRequests runs.
HandleStatusUpdate(i, k) ==
  /\ i \in 1..Len(requests)
  /\ k \in 1..Len(RequestButtons(requests[i].status))
  /\ clicked' = << [ id |-> requests[i].id,
                     status |-> RequestButtons(requests[i].status)[k] ] >>
  /\ requests' = loadRequests(getAppRequests)
  /\ UNCHANGED exceptRequests

\* The table shows some rows.
InitRequests ==
  /\ RestMounted
  /\ SessionMounted
  /\ TagsMounted
  /\ RequestModalMounted
  /\ \E list \in RequestLists : requests = RequestRows(list)
  /\ clicked = Nothing

NextRequests ==
  \E i \in 1..MaxRequests, k \in 1..2 : HandleStatusUpdate(i, k)

SpecRequests == InitRequests /\ [][NextRequests]_vars

\* ------------------------------------------------------------------ claims

\* t is v without its leading and trailing whitespace.
IsTrimOf(t, v) ==
  /\ \E i \in 0..Len(v) : \E j \in i..Len(v) :
       /\ t = SubSeq(v, i + 1, j)
       /\ \A k \in 1..i : v[k] \in Whitespace
       /\ \A k \in (j + 1)..Len(v) : v[k] \in Whitespace
  /\ t # << >> => t[1] \notin Whitespace /\ t[Len(t)] \notin Whitespace

Pieces(v) == {SubSeq(v, i + 1, j) : i \in 0..Len(v), j \in 0..Len(v)}

TrimOf(v) == CHOOSE t \in Pieces(v) : IsTrimOf(t, v)

NoDuplicates(list) ==
  \A i \in 1..Len(list) : \A j \in 1..Len(list) : i # j => list[i] # list[j]

\* C1: with every call made on the rendered settings, no list holds a value
\* twice (exact, case-sensitive match).
C1_NoDuplicates ==
  rendered = settings => \A list \in Lists : NoDuplicates(settings[list])

\* A duplicate was offered to a list that holds two values differing in case
\* only, and the list still holds each once.
C1_Witness ==
  /\ last.op = "addItem"
  /\ last.path = "duplicate"
  /\ Includes(settings[last.list], <<"A">>)
  /\ Includes(settings[last.list], <<"a">>)

\* C2: addItem of a value that is non-empty after trimming and not in the
\* list appends the trimmed value as the last element; the other lists and
\* the scalar fields keep their values.
C2_AddAppendsTrimmed ==
  [][ \A list \in Lists : \A value \in Inputs :
        ( /\ AddItemStep(list, value)
          /\ TrimOf(value) # EmptyStr
          /\ ~Includes(settings[list], TrimOf(value)) )
        => settings' = [settings EXCEPT ![list] = Append(@, TrimOf(value))]
    ]_vars

\* " A " was typed, and the list with another entry before it now ends
\* with "A".
C2_Witness ==
  /\ last.op = "addItem"
  /\ last.path = "appended"
  /\ last.value = <<" ", "A", " ">>
  /\ Len(settings[last.list]) >= 2
  /\ settings[last.list][Len(settings[last.list])] = <<"A">>
  /\ \E other \in Lists \ {last.list} : settings[other] # << >>

\* C3: addItem of a value that is empty after trimming, or whose trimmed
\* form is in the list, changes no list and raises no error; and after any
\* addItem the same addItem again changes nothing.
C3_AddNoOp ==
  [][ \A list \in Lists : \A value \in Inputs :
        AddItemStep(list, value) =>
          /\ ( TrimOf(value) = EmptyStr \/ Includes(settings[list], TrimOf(value)) )
               => settings' = settings /\ ~last'.threw
          /\ addItem(settings', settings', list, value) = settings'
    ]_vars

\* " A " was offered to a list that holds "A".
C3_Witness ==
  /\ last.op = "addItem"
  /\ last.path = "duplicate"
  /\ last.value = <<" ", "A", " ">>
  /\ Includes(settings[last.list], <<"A">>)

\* The list without the element at JavaScript index i.
Without(list, i) == SubSeq(list, 1, i) \o SubSeq(list, i + 2, Len(list))

\* C4: removeItem with 0 <= index < len removes the element at index: one
\* element less, the others in their order, the other lists unchanged.
C4_RemoveInRange ==
  [][ \A list \in Lists : \A index \in 0..(Len(settings[list]) - 1) :
        RemoveItemStep(list, index) =>
          /\ Len(settings'[list]) = Len(settings[list]) - 1
          /\ settings' = [settings EXCEPT ![list] = Without(@, index)]
    ]_vars

\* The middle one of three entries was removed.
C4_Witness ==
  /\ last.op = "removeItem"
  /\ last.path = "inRange"
  /\ last.index = 1
  /\ Len(settings[last.list]) = 2

\* C5: removeItem with an index outside [0, len) fails with IndexOutOfRange.
C5_RemoveOutOfRangeFails ==
  (last.op = "removeItem" /\ last.path = "outOfRange") => last.threw

\* list with the elements at JavaScript indices i and j exchanged.
Exchanged(list, i, j) ==
  [k \in 1..Len(list) |->
     IF k = i + 1 THEN list[j + 1] ELSE IF k = j + 1 THEN list[i + 1] ELSE list[k]]

Neighbour(index, direction) == IF direction = "up" THEN index - 1 ELSE index + 1

\* C6: moveItem with 0 <= index < len exchanges the element with its
\* neighbour and changes nothing else; with no neighbour on that side
\* nothing changes and no error is raised.
C6_MoveSwapsNeighbour ==
  [][ \A list \in Lists : \A index \in 0..(Len(settings[list]) - 1) :
        \A direction \in Directions :
          MoveItemStep(list, index, direction) =>
            IF Neighbour(index, direction) \in 0..(Len(settings[list]) - 1)
              THEN settings' = [settings EXCEPT
                     ![list] = Exchanged(@, index, Neighbour(index, direction))]
              ELSE settings' = settings /\ ~last'.threw
    ]_vars

\* The middle one of three entries was moved up, in a list of three
\* different values.
C6_Witness ==
  /\ last.op = "moveItem"
  /\ last.path = "swapped"
  /\ last.index = 1
  /\ last.direction = "up"
  /\ Len(settings[last.list]) = 3

\* C7: moving the element at index i down and then the element at i + 1 up
\* gives the list back.
C7_MoveRoundTrip ==
  \A list \in Lists : \A i \in 0..(Len(settings[list]) - 2) :
    LET down == moveItem(settings, settings, list, i, "down")
    IN  moveItem(down, down, list, i + 1, "up") = settings

\* An element of a list of three was moved up from index 2.
C7_Witness ==
  /\ last.op = "moveItem"
  /\ last.path = "swapped"
  /\ last.direction = "up"
  /\ last.index = 2
  /\ Len(settings[last.list]) = 3

\* newValues without the later occurrences of each value.
RECURSIVE Dedup(_)
Dedup(newValues) ==
  IF newValues = << >>
    THEN << >>
    ELSE LET front == Dedup(SubSeq(newValues, 1, Len(newValues) - 1))
             x == newValues[Len(newValues)]
         IN  IF Includes(front, x) THEN front ELSE Append(front, x)

\* C8: after a load each list of the editor is the stored list with its
\* duplicates removed, the first occurrences kept in their order.
C8_LoadReplacesLists ==
  (last.op = "getDistrictSettings" /\ last.path = "ok")
    => \A list \in Lists : settings[list] = Dedup(stored[list])

ListHandlers == {"addItem", "removeItem", "moveItem"}

C10_SavedMeansPersisted ==
  justSaved => settings = stored

\* C11: when loadData ends, every secret field of the editor holds the
\* sentinel or an empty value and never a secret the district holds; after
\* a load that succeeded it holds the sentinel if the district holds a
\* secret in that field, and the empty value of the district otherwise.
C11_LoadMasksSecrets ==
  [][ ( pc = "settings" /\ pc' = "done" ) =>
        \A f \in SecretFields :
          /\ last'.path = "ok" =>
                settings'[f] = (IF stored[f] \in {EmptyStr, Null} THEN stored[f] ELSE Sentinel)
          /\ settings'[f] \in {Sentinel, EmptyStr, Null}
          /\ stored[f] \notin {EmptyStr, Null} => settings'[f] # stored[f]
    ]_vars

\* A load has just ended in an editor opened again: the district holds a
\* client secret that was typed and saved, and no private key.
C11_Witness ==
  /\ EditorShown
  /\ last = Handler("getDistrictSettings", "ok")
  /\ stored.google_client_secret = <<"n">>
  /\ settings.google_client_secret = Sentinel
  /\ stored.apple_private_key = Null
  /\ settings.apple_private_key = Null
  /\ stored.microsoft_client_secret = <<"s">>
  /\ settings.microsoft_client_secret = Sentinel

\* The values a secret field can be given by typing.
Typed(f) ==
  IF f = "apple_private_key"
    THEN { Null, <<" ", "n", " ">>, Sentinel }
    ELSE { Null, <<"n">>, Sentinel }

C13_FailedSaveKeepsSettings ==
  [][ ( /\ route = "/settings" /\ route' = "/settings"
        /\ saving /\ ~saving'
        /\ putResp # Nothing /\ putResp[1] # "success" )
      => /\ message' = "error"
         /\ settings' = settings
         /\ rendered' = settings
         /\ stored' = stored
         /\ ~justSaved'
         /\ EditorShown'
    ]_vars

\* A save of a list with an entry has just failed.
C13_Witness ==
  /\ last.op = "handleSave"
  /\ last.path \in {"error", "reject"}
  /\ message = "error"
  /\ ~saving
  /\ TotalLen(settings) > 0
  /\ settings # stored

\* C14: when the load of an editor mounted as admin ends with the answer
\* of the backing store, each list of the editor is the list the store
\* holds, the one the last accepted save sent, in the same order.
C14_SaveLoadRoundTrip ==
  [][ ( pc = "settings" /\ pc' = "done" /\ last'.path = "ok" )
        => \A list \in Lists : settings'[list] = stored[list]
    ]_vars

C16_AdminOnly ==
  [][ /\ ( isAuthorized' /\ ~isAuthorized )
           => last' = Handler("getCurrentUser", "admin")
      /\ ( pc' = "settings" /\ pc # "settings" )
           => last' = Handler("getCurrentUser", "admin") /\ isAuthorized'
      /\ ( route = "/settings" /\ pc = "me" /\ pc' # "me" )
           => /\ last'.op = "getCurrentUser"
              /\ last'.path = "admin"
                   => route' = "/settings" /\ isAuthorized' /\ pc' = "settings"
              /\ last'.path = "staff"
                   => route' = "/apps" /\ ~isAuthorized' /\ pc' = "done"
              /\ last'.path \in {"anonymous", "throw"}
                   => route' = "/login" /\ ~isAuthorized' /\ pc' = "done"
              /\ last'.path \in {"admin", "staff", "anonymous", "throw"}
      /\ ( EditorShown' /\ ~EditorShown )
           => last'.op = "getDistrictSettings" /\ isAuthorized
    ]_vars

\* An authenticated user who is no admin has just been sent to /apps, the
\* district holding a list entry an admin had saved.
C16_Witness ==
  /\ last = Handler("getCurrentUser", "staff")
  /\ route = "/apps"
  /\ ~isAuthorized
  /\ pc = "done"
  /\ TotalLen(stored) > 0

\* A request carries a CSRF token: as the csrf_token of its body, the way
\* addAppContact sends it, or in a header.
CarriesCsrfToken(request) ==
  \/ "csrf_token" \in DOMAIN request.body
  \/ \E h \in DOMAIN request.headers : h \in {"X-CSRFToken", "X-CSRF-Token"}

\* C17: the PUT that saves the settings, a state-changing request of the
\* API client, carries a CSRF token.
C17_CsrfOnSettingsPut ==
  putReq # Nothing => CarriesCsrfToken(updateDistrictSettings(putReq[1]))

\* C18: once the catalog has loaded, its status chips after 'all' are the
\* app_statuses the district has configured, in the configured order, and
\* so are the status options of its edit form.
C18_CatalogUsesConfiguredStatuses ==
  ( last.op = "loadApps" /\ last.path # "catch" )
    => /\ Tail(statuses) = stored.app_statuses
       /\ EditStatusOptions = stored.app_statuses

\* Two letters that differ at most in case.
SameLetter(x, y) ==
  x = y \/ \E pair \in { {"A", "a"}, {"B", "b"}, {"C", "c"} } : {x, y} \subseteq pair

\* t occurs in s, case ignored.
ContainsCI(s, t) ==
  \E off \in 0..(Len(s) - Len(t)) :
     \A k \in 1..Len(t) : SameLetter(s[off + k], t[k])

\* The app has the selected status and its name or company has the text.
Matches(app) ==
  /\ filterStatus = All \/ app.status = filterStatus
  /\ \/ ContainsCI(app.name, searchQuery)
     \/ app.company # Null /\ ContainsCI(app.company, searchQuery)

\* C19: the apps shown are the loaded apps that have the selected status
\* (any status under 'all') and whose name or company contains the search
\* text, case ignored: all of them, once each, in the loaded order; with
\* 'all' selected and no search text every loaded app is shown.
C19_ShownApps ==
  LET idx == { i \in 1..Len(apps) : Matches(apps[i]) }
      nth(k) == CHOOSE i \in idx : Cardinality({ j \in idx : j <= i }) = k
  IN  /\ Len(filteredApps) = Cardinality(idx)
      /\ \A k \in 1..Len(filteredApps) : filteredApps[k] = apps[nth(k)]
      /\ ( filterStatus = All /\ searchQuery = EmptyStr ) => filteredApps = apps

\* Two apps are loaded, the second with the selected status and the text
\* in its company in other case, the first with another status: the
\* second alone is shown.
C19_Witness ==
  /\ Len(apps) = 2
  /\ apps[1].id = 2
  /\ apps[2].id = 3
  /\ filterStatus = Approved
  /\ searchQuery = <<"a", "B">>
  /\ Len(filteredApps) = 1
  /\ filteredApps[1].id = 3

\* C20: a list handler called on a render that may be behind the state
\* gives the state it gives when called on that state itself, so that no
\* list gets a value twice, and none an entry from outside the list.
C20_BatchedAsSequential ==
  [][ /\ \A list \in Lists : \A value \in BatchInputs :
           AddItemCall(list, value)
             => settings' = addItem(settings, settings, list, value)
      /\ \A list \in Lists : \A index \in RowIndices(list) : \A direction \in Directions :
           MoveItemCall(list, index, direction)
             => settings' = moveItem(settings, settings, list, index, direction)
      /\ \A list \in Lists :
           /\ NoDuplicates(settings[list]) => NoDuplicates(settings'[list])
           /\ ~Includes(settings'[list], Undefined)
    ]_vars

\* C21: no save is issued while the request or the answer of an earlier
\* one is on its way, and the state of the editor changes only in a handler
\* of user input or on the answer of a request, never in a timer.
C21_OneSaveNoTimer ==
  [][ /\ ( putReq' # Nothing /\ putReq' # putReq )
           => putReq = Nothing /\ putResp = Nothing /\ ~saving
      /\ component' # component
           => /\ last'.op \in {"mount", "leave", "getCurrentUser", "getDistrictSettings",
                               "addItem", "removeItem", "moveItem", "onChange",
                               "handleSave"}
              /\ ~timer'
    ]_vars

\* C22: the navigation always has Apps; it has Staff and Activity only when
\* the auth check of the layout answered an authenticated user with a role, and
\* Admin only when that role is admin; after a failed check, and before the
\* answer, it has Apps alone.
C22_NavByAuthCheck ==
  LET data == checked[1]
      member == data.authenticated = TRUE /\ ~Falsy(data.role)
  IN  /\ Includes(navItems, "Apps")
      /\ checked = Nothing => navItems = <<"Apps">>
      /\ checked # Nothing =>
            /\ data.threw => navItems = <<"Apps">>
            /\ Includes(navItems, "Staff") => member
            /\ Includes(navItems, "Activity") => member
            /\ Includes(navItems, "Admin") => member /\ data.role = AdminRole

\* The check answered an admin and the navigation shows all four items.
C22_Witness ==
  /\ checked # Nothing
  /\ checked[1].authenticated = TRUE
  /\ checked[1].role = AdminRole
  /\ navItems = <<"Apps", "Staff", "Activity", "Admin">>

\* The token the most recent /api/auth/me response stands for: none after a
\* logout, none when the response carried none.
FreshToken ==
  IF lastMe = Nothing \/ loggedOut \/ Falsy(lastMe[1].csrf_token)
    THEN Null
    ELSE lastMe[1].csrf_token

\* C28: a contact request carries the token of the most recent /api/auth/me
\* response, and no token after a logout or after a response without one.
C28_FreshCsrfToken ==
  [][ sent' # sent /\ sent' # Nothing => sent'[1].csrf_token = FreshToken' ]_vars

\* C27: the selected status filter is one of the chips displayed: 'all' or the
\* status of a loaded app.
C27_FilterIsAChip ==
  \/ filterStatus = All
  \/ \E i \in 1..Len(apps) : apps[i].status = filterStatus

\* The tags of a list, as a set.
TagSet(list) == { list[i] : i \in 1..Len(list) }

\* C26: a click on a tag of a selection without repeated tags appends the tag
\* when it was not selected and takes it out, the others keeping their order,
\* when it was; the selection stays without repeated tags, and a second click
\* on the same tag gives the set of tags there was before the first.
C26_ToggleTag ==
  [][ toggled' # Nothing /\ selectedTags' # selectedTags /\ NoDuplicates(selectedTags)
        => LET t == toggled'[1]
               twice == toggleTag(selectedTags', t)
           IN  /\ ~Includes(selectedTags, t) => selectedTags' = selectedTags \o <<t>>
               /\ Includes(selectedTags, t) =>
                     \E i \in 1..Len(selectedTags) :
                        /\ selectedTags[i] = t
                        /\ selectedTags' = Without(selectedTags, i - 1)
               /\ NoDuplicates(selectedTags')
               /\ TagSet(twice) = TagSet(selectedTags)
    ]_vars

\* A selected tag was clicked in a selection of three tags.
C26_Witness ==
  /\ editOpen
  /\ toggled = <<"reading">>
  /\ selectedTags = <<"math", "science">>
  /\ itemTags = <<"math", "reading", "science">>

\* The backend accepted the request.
Accepted(response) ==
  response.status >= 200 /\ response.status <= 299 /\ response.json /\ ~response.error

\* C24: when the submission of the modal on screen finishes, success is true
\* only if the backend accepted the request; after a 401, another status
\* outside 2xx or a response carrying an error, success is false and an error
\* is shown; loading is false in both cases.
C24_SuccessOnlyWhenAccepted ==
  [][ \A o \in submits \ submits' :
        Shown(o) =>
          /\ modal'.success => Accepted(answered'[1])
          /\ ~Accepted(answered'[1]) => ~modal'.success /\ modal'.error # EmptyStr
          /\ ~modal'.loading
    ]_vars

\* C25: the onClose of one opening of the modal is invoked at most once.
C25_OnCloseOnce == \A o \in 1..MaxOpenings : closes[o] <= 1

\* The position of the request with this id among the rows.
RowOf(rows, id) == (CHOOSE i \in 1..Len(rows) : rows[i].id = id)

\* C23: a click on a button of a row asks for Approved or Denied when the
\* row is Pending and for Pending when it is not, and no step takes a request
\* from Approved to Denied or from Denied to Approved.
C23_StatusChangesOffered ==
  [][ /\ clicked' # Nothing /\ clicked' # clicked =>
           LET click == clicked'[1]
               from == requests[RowOf(requests, click.id)].status
           IN  \/ from = Pending /\ click.status \in {Approved, Denied}
               \/ from # Pending /\ click.status = Pending
      /\ \A i \in 1..Len(requests), j \in 1..Len(requests') :
           requests[i].id = requests'[j].id =>
             /\ ~(requests[i].status = Approved /\ requests'[j].status = Denied)
             /\ ~(requests[i].status = Denied /\ requests'[j].status = Approved)
    ]_vars

\* Approve was clicked on a Pending row, next to a Denied one.
C23_Witness ==
  /\ Len(requests) = 2
  /\ requests[1].status = Pending
  /\ requests[2].status = Denied
  /\ clicked = << [id |-> 1, status |-> Approved] >>

====
